---- MODULE Spec2Model ----
(***************************************************************************)
(* next-server-action-validation: withValidation (the validating           *)
(* dispatcher) and isValidationError (the error predicate).                *)
(*                                                                         *)
(* JavaScript values are records.  A value has a type t, a printed form v  *)
(* for primitives, and, for objects and arrays, the attributes the code    *)
(* and the schemas read: isValidationError, errors, name, extra.           *)
(***************************************************************************)
EXTENDS Naturals, Sequences, FiniteSets, TLC

\* Number of invocations of the wrapped operation that may be in flight.
MaxCalls == 2
\* Number of times the predicate is applied to the same value.
MaxRepeat == 2

(***************************************************************************)
(* Values                                                                  *)
(***************************************************************************)
\* A primitive held in an attribute; Absent marks a missing attribute.
Attr(t, v) == [t |-> t, v |-> v]
Absent == Attr("absent", "")
NoErrors == [present |-> FALSE, items |-> << >>]
ErrorsAttr(items) == [present |-> TRUE, items |-> items]

JS(t, v, ive, errs, name, extra) ==
  [t |-> t, v |-> v, isValidationError |-> ive, errors |-> errs,
   name |-> name, extra |-> extra]
Prim(t, v) == JS(t, v, Absent, NoErrors, Absent, Absent)
Null == Prim("null", "")
Undefined == Prim("undefined", "")
True == Prim("bool", "true")
False == Prim("bool", "false")
Bool(b) == IF b THEN True ELSE False
Obj(ive, errs, name, extra) == JS("obj", "", ive, errs, name, extra)
Arr(ive) == JS("array", "", ive, NoErrors, Absent, Absent)

\* src/unnamed/part_001: an issue record (path and message), ValidationError.
Issue(path, message) == [path |-> path, message |-> message]
ValidationError(errors) ==
  Obj(Attr("bool", "true"), ErrorsAttr(errors), Absent, Absent)

\* Completion records of an evaluation: a returned value or a raised fault.
Return(val) == [kind |-> "return", val |-> val, fault |-> ""]
Throw(fault) == [kind |-> "throw", val |-> Undefined, fault |-> fault]

\* ECMAScript ToBoolean, as used by the && operator.
ToBoolean(val) ==
  CASE val.t \in {"null", "undefined"} -> FALSE
    [] val.t = "bool" -> val.v = "true"
    [] val.t = "num" -> val.v \notin {"0", "NaN"}
    [] val.t = "str" -> val.v # ""
    [] OTHER -> TRUE

\* Property read obj.isValidationError: a TypeError on null and undefined,
\* undefined when the attribute is missing (always so on a primitive).
GetIsValidationError(obj) ==
  IF obj.t \in {"null", "undefined"} THEN Throw("TypeError")
  ELSE IF obj.isValidationError = Absent THEN Return(Undefined)
  ELSE Return(Prim(obj.isValidationError.t, obj.isValidationError.v))

\* x === true
StrictEqualsTrue(val) == val.t = "bool" /\ val.v = "true"

(***************************************************************************)
(* The error predicate, src/src/validation-error.ts                        *)
(***************************************************************************)
\* A plausible slip: the guard "obj &&" is dropped.
isValidationErrorUnguarded(obj) ==
  LET g == GetIsValidationError(obj)
  IN IF g.kind = "throw" THEN g ELSE Return(Bool(StrictEqualsTrue(g.val)))

\* return obj && obj.isValidationError === true;
isValidationError(obj) ==
  IF ~ToBoolean(obj) THEN Return(obj)
  ELSE LET g == GetIsValidationError(obj)
       IN IF g.kind = "throw" THEN g
          ELSE Return(Bool(StrictEqualsTrue(g.val)))

(***************************************************************************)
(* The schema validator (zod), called at src/src/with-validation.ts:15     *)
(***************************************************************************)
\* Schemas captured at wrap time.
\*   nameMin4   z.object({ name: z.string().min(4) })            (README)
\*   nameExtra  z.object({ name: z.string().min(4), extra: z.number() })
\*   faulty     a validator whose safeParse raises a fault
\*   asyncCheck a validator that delivers the nameMin4 result asynchronously:
\*              its safeParse returns a pending handle, not a result
Schemas == {"nameMin4", "nameExtra", "faulty", "asyncCheck"}

MinLength == 4

ParseResult(success, data, issues) ==
  [shape |-> "result", success |-> success, data |-> data, issues |-> issues]
\* A pending handle has neither a success nor an error attribute.
PendingHandle ==
  [shape |-> "promise", success |-> FALSE, data |-> Undefined, issues |-> << >>]

\* The type zod finds a value to have (getParsedType).
ReceivedType(a) ==
  CASE a.t = "bool" -> "boolean"
    [] a.t = "num" -> IF a.v = "NaN" THEN "nan" ELSE "number"
    [] a.t = "str" -> "string"
    [] a.t = "obj" -> "object"
    [] OTHER -> a.t

\* The message of zod's invalid_type issue: "Required" for undefined,
\* otherwise the expected and the received type.
InvalidTypeMessage(expected, a) ==
  LET r == ReceivedType(a)
  IN CASE r \in {"undefined", "absent"} -> "Required"
       [] expected = "string" ->
            (CASE r = "null" -> "Expected string, received null"
               [] r = "boolean" -> "Expected string, received boolean"
               [] r = "number" -> "Expected string, received number"
               [] r = "nan" -> "Expected string, received nan"
               [] r = "array" -> "Expected string, received array"
               [] OTHER -> "Expected string, received object")
       [] expected = "number" ->
            (CASE r = "null" -> "Expected number, received null"
               [] r = "boolean" -> "Expected number, received boolean"
               [] r = "string" -> "Expected number, received string"
               [] r = "nan" -> "Expected number, received nan"
               [] r = "array" -> "Expected number, received array"
               [] OTHER -> "Expected number, received object")
       [] OTHER ->
            (CASE r = "null" -> "Expected object, received null"
               [] r = "boolean" -> "Expected object, received boolean"
               [] r = "number" -> "Expected object, received number"
               [] r = "nan" -> "Expected object, received nan"
               [] r = "string" -> "Expected object, received string"
               [] OTHER -> "Expected object, received array")

\* Issues of the name field, z.string().min(4).
NameIssues(data) ==
  IF ReceivedType(data.name) # "string"
    THEN << Issue(<<"name">>, InvalidTypeMessage("string", data.name)) >>
  ELSE IF Len(data.name.v) < MinLength
    THEN << Issue(<<"name">>, "String must contain at least 4 character(s)") >>
  ELSE << >>

\* Issues of the extra field, z.number(); NaN is not a number to zod.
ExtraIssues(data) ==
  IF ReceivedType(data.extra) # "number"
    THEN << Issue(<<"extra">>, InvalidTypeMessage("number", data.extra)) >>
  ELSE << >>

\* The validator's verdict on data: the issues in the order it reports them,
\* or the normalized output (an object schema strips the keys it does not
\* declare).
Verdict(schema, data) ==
  IF ReceivedType(data) # "object"
    THEN ParseResult(FALSE, Undefined,
                     << Issue(<< >>, InvalidTypeMessage("object", data)) >>)
  ELSE LET issues == IF schema = "nameExtra"
                       THEN NameIssues(data) \o ExtraIssues(data)
                       ELSE NameIssues(data)
           output == IF schema = "nameExtra"
                       THEN Obj(Absent, NoErrors, data.name, data.extra)
                       ELSE Obj(Absent, NoErrors, data.name, Absent)
       IN IF issues # << >> THEN ParseResult(FALSE, Undefined, issues)
          ELSE ParseResult(TRUE, output, << >>)

ParseReturn(res) == [kind |-> "return", res |-> res, fault |-> ""]
ParseThrow(fault) == [kind |-> "throw", res |-> PendingHandle, fault |-> fault]

\* schema.safeParse(data), a synchronous call.
safeParse(schema, data) ==
  CASE schema = "faulty" -> ParseThrow("ValidatorFault")
    [] schema = "asyncCheck" -> ParseReturn(PendingHandle)
    [] OTHER -> ParseReturn(Verdict(schema, data))

(***************************************************************************)
(* The target operation func, called at src/src/with-validation.ts:24      *)
(***************************************************************************)
\*   asyncTrue    async (data) => true                            (README)
\*   syncEcho     (data) => data
\*   asyncEcho    async (data) => data
\*   laterEcho    async (data) => { await <other work>; return data }
\*   syncThrow    (data) => { throw TargetFault }
\*   asyncReject  async (data) => { throw TargetFault }
\*   laterReject  async (data) => { await <other work>; throw TargetFault }
\*   forge        (data) => ({ isValidationError: true, errors: [] })
Funcs == {"asyncTrue", "syncEcho", "asyncEcho", "laterEcho", "syncThrow",
          "asyncReject", "laterReject", "forge"}

Outcome(state, val, fault) == [state |-> state, val |-> val, fault |-> fault]
NoOutcome == Outcome("none", Undefined, "")
Pending == Outcome("pending", Undefined, "")
Fulfilled(val) == Outcome("fulfilled", val, "")
Rejected(fault) == Outcome("rejected", Undefined, fault)

FuncValue(val) ==
  [kind |-> "value", val |-> val, fault |-> "", handle |-> NoOutcome,
   settle |-> NoOutcome]
FuncThrow(fault) ==
  [kind |-> "throw", val |-> Undefined, fault |-> fault, handle |-> NoOutcome,
   settle |-> NoOutcome]
\* A handle: its state when func returns and the outcome it ends in.
FuncHandle(handle, settle) ==
  [kind |-> "promise", val |-> Undefined, fault |-> "", handle |-> handle,
   settle |-> settle]

\* What func(arg) hands back: a value, a fault, or a handle.  An async
\* function that awaits nothing returns a handle that is settled already; one
\* that awaits other work returns a pending handle that settles later.
Apply(func, arg) ==
  CASE func = "asyncTrue" -> FuncHandle(Fulfilled(True), Fulfilled(True))
    [] func = "syncEcho" -> FuncValue(arg)
    [] func = "asyncEcho" -> FuncHandle(Fulfilled(arg), Fulfilled(arg))
    [] func = "laterEcho" -> FuncHandle(Pending, Fulfilled(arg))
    [] func = "syncThrow" -> FuncThrow("TargetFault")
    [] func = "asyncReject" ->
         FuncHandle(Rejected("TargetFault"), Rejected("TargetFault"))
    [] func = "laterReject" -> FuncHandle(Pending, Rejected("TargetFault"))
    [] OTHER -> FuncValue(ValidationError(<< >>))

(***************************************************************************)
(* The validating dispatcher, src/src/with-validation.ts                   *)
(***************************************************************************)
\* Completion of the body of the async arrow function: a returned value, a
\* returned handle (with the outcome it later settles to), or a fault; args
\* lists the arguments func was invoked with while the body ran.
BodyReturn(val, args) ==
  [kind |-> "return", val |-> val, fault |-> "", args |-> args,
   handle |-> NoOutcome, settle |-> NoOutcome]
BodyReturnHandle(handle, settle, args) ==
  [kind |-> "returnHandle", val |-> Undefined, fault |-> "", args |-> args,
   handle |-> handle, settle |-> settle]
BodyThrow(fault, args) ==
  [kind |-> "throw", val |-> Undefined, fault |-> fault, args |-> args,
   handle |-> NoOutcome, settle |-> NoOutcome]

\* A plausible slip: the call is wrapped in try/catch and a validator fault
\* is reported as a validation failure without issues.
ValidateCaught(schema, data) ==
  LET r == safeParse(schema, data)
  IN IF r.kind = "throw" THEN ParseReturn(ParseResult(FALSE, Undefined, << >>))
     ELSE r

\* Line 15: const zodValidationResult = schema.safeParse(data);
Validate(schema, data) == safeParse(schema, data)

\* A plausible slip: the issues are not copied into the error value.
OnFailureNoIssues(result) ==
  IF result.shape = "promise" THEN BodyThrow("TypeError", << >>)
  ELSE BodyReturn(ValidationError(<< >>), << >>)

\* Lines 18-21: return { isValidationError: true,
\*                       errors: zodValidationResult.error.errors };
\* A pending handle has no error attribute: reading .errors off undefined
\* raises a TypeError.
OnFailure(result) ==
  IF result.shape = "promise" THEN BodyThrow("TypeError", << >>)
  ELSE BodyReturn(ValidationError(result.issues), << >>)

\* A plausible slip: the raw input is forwarded.
ArgumentRaw(result, data) == data

\* Line 24: the argument expression zodValidationResult.data.
Argument(result, data) == result.data

\* A plausible slip: a fault of the target is caught and reported as a
\* validation error.
OnSuccessCaught(func, arg) ==
  LET r == Apply(func, arg)
  IN CASE r.kind = "throw" -> BodyReturn(ValidationError(<< >>), << arg >>)
       [] r.kind = "value" -> BodyReturn(r.val, << arg >>)
       [] OTHER -> BodyReturnHandle(
                     Pending,
                     IF r.settle.state = "rejected"
                       THEN Fulfilled(ValidationError(<< >>)) ELSE r.settle,
                     << arg >>)

\* Line 24: return func(zodValidationResult.data);
OnSuccess(func, arg) ==
  LET r == Apply(func, arg)
  IN CASE r.kind = "throw" -> BodyThrow(r.fault, << arg >>)
       [] r.kind = "value" -> BodyReturn(r.val, << arg >>)
       [] OTHER -> BodyReturnHandle(r.handle, r.settle, << arg >>)

\* Lines 15-24, the body of the function withValidation returns.
withValidation(schema, func, data) ==
  LET r == Validate(schema, data)
  IN IF r.kind = "throw" THEN BodyThrow(r.fault, << >>)
     ELSE IF ~r.res.success THEN OnFailure(r.res)
     ELSE OnSuccess(func, Argument(r.res, data))

\* A plausible slip: the arrow function is not declared async, so the body's
\* completion reaches the invoking code directly.
SyncFunction(body) ==
  CASE body.kind = "throw" ->
         [ret |-> "thrown", promise |-> NoOutcome,
          direct |-> Rejected(body.fault)]
    [] body.kind = "return" ->
         [ret |-> "value", promise |-> NoOutcome,
          direct |-> Fulfilled(body.val)]
    [] OTHER -> [ret |-> "promise", promise |-> Pending, direct |-> NoOutcome]

\* Line 14: async (data) => { ... }.  The call hands the invoking code a
\* promise: rejected when the body raised, fulfilled when it returned a
\* value, pending on the returned handle otherwise.  Nothing is handed over
\* directly.
AsyncFunction(body) ==
  CASE body.kind = "throw" ->
         [ret |-> "promise", promise |-> Rejected(body.fault),
          direct |-> NoOutcome]
    [] body.kind = "return" ->
         [ret |-> "promise", promise |-> Fulfilled(body.val),
          direct |-> NoOutcome]
    [] OTHER -> [ret |-> "promise", promise |-> Pending, direct |-> NoOutcome]

(***************************************************************************)
(* State                                                                   *)
(***************************************************************************)
VARIABLES
  schema,    \* the schema captured by withValidation
  func,      \* the target operation captured by withValidation
  pc,        \* per invocation: idle, returned, delivered, checked
  input,     \* per invocation: the value it was invoked with
  ret,       \* per invocation: what the call expression evaluated to
  promise,   \* per invocation: state of the promise the call returned
  target,    \* per invocation: state of the handle func returned
  funcArgs,  \* per invocation: arguments func was invoked with
  settles,   \* per invocation: number of times its promise was settled
  observed,  \* per invocation: the outcome that reached the invoking code
  verdict,   \* per invocation: isValidationError applied to the result
  obj,       \* the value the predicate is applied to
  results    \* the completions of the successive applications to obj

vars == << schema, func, pc, input, ret, promise, target, funcArgs, settles,
           observed, verdict, obj, results >>

Invocations == 1 .. MaxCalls

\* Attribute values a caller may tag an object with.
Tags == {Absent, Attr("undefined", ""), Attr("null", ""), Attr("bool", "true"),
         Attr("bool", "false"), Attr("num", "0"), Attr("num", "1"),
         Attr("str", ""), Attr("str", "true"), Attr("obj", "")}

Primitives == {Null, Undefined, True, False, Prim("num", "0"),
               Prim("num", "1"), Prim("num", "NaN"), Prim("str", ""),
               Prim("str", "true")}

\* Values the predicate is exercised on.
Values ==
  Primitives
  \cup {Arr(tag) : tag \in {Absent, Attr("bool", "true")}}
  \cup {Obj(tag, errs, Absent, Absent) :
          tag \in Tags,
          errs \in {NoErrors, ErrorsAttr(<< >>),
                    ErrorsAttr(<< Issue(<<"name">>, "Required") >>)}}

\* Values the wrapped operation is invoked with.
Inputs ==
  {Null,
   Obj(Absent, NoErrors, Attr("str", "abc"), Absent),
   Obj(Absent, NoErrors, Attr("str", "abcd"), Absent),
   Obj(Absent, NoErrors, Attr("str", "abcd"), Attr("num", "1")),
   Obj(Absent, NoErrors, Attr("str", "abc"), Attr("str", "x")),
   Obj(Absent, NoErrors, Attr("bool", "true"), Absent),
   Obj(Absent, NoErrors, Attr("str", "abcd"), Attr("num", "NaN"))}

NoVerdict == [kind |-> "none", val |-> Undefined, fault |-> ""]

DispatcherInit ==
  /\ schema \in Schemas
  /\ func \in Funcs
  /\ pc = [i \in Invocations |-> "idle"]
  /\ input = [i \in Invocations |-> Undefined]
  /\ ret = [i \in Invocations |-> "none"]
  /\ promise = [i \in Invocations |-> NoOutcome]
  /\ target = [i \in Invocations |-> NoOutcome]
  /\ funcArgs = [i \in Invocations |-> << >>]
  /\ settles = [i \in Invocations |-> 0]
  /\ observed = [i \in Invocations |-> NoOutcome]
  /\ verdict = [i \in Invocations |-> NoVerdict]

Init ==
  /\ DispatcherInit
  /\ obj = Undefined
  /\ results = << >>

(***************************************************************************)
(* Invocations of the wrapped operation                                    *)
(***************************************************************************)
\* A plausible slip: the wrapper remembers the first input it validated and
\* runs later invocations on it.
CallMemo(i, x) ==
  LET data == IF i > 1 THEN input[1] ELSE x
      body == withValidation(schema, func, data)
      call == AsyncFunction(body)
  IN /\ pc[i] = "idle"
     /\ \A j \in Invocations : j < i => pc[j] # "idle"
     /\ input' = [input EXCEPT ![i] = x]
     /\ funcArgs' = [funcArgs EXCEPT ![i] = body.args]
     /\ ret' = [ret EXCEPT ![i] = call.ret]
     /\ promise' = [promise EXCEPT ![i] = call.promise]
     /\ settles' = [settles EXCEPT
                      ![i] = IF call.promise.state \in {"fulfilled", "rejected"}
                               THEN 1 ELSE 0]
     /\ target' = [target EXCEPT
                     ![i] = IF body.kind = "returnHandle" THEN body.handle
                            ELSE NoOutcome]
     /\ observed' = [observed EXCEPT ![i] = call.direct]
     /\ pc' = [pc EXCEPT ![i] = "returned"]
     /\ UNCHANGED << schema, func, verdict, obj, results >>

\* The invoking code calls the wrapped operation with x.  The body runs to
\* completion within the call (it holds no await) and the call returns.
\* Invocations are numbered in the order they are made.
Call(i, x) ==
  LET body == withValidation(schema, func, x)
      call == AsyncFunction(body)
  IN /\ pc[i] = "idle"
     /\ \A j \in Invocations : j < i => pc[j] # "idle"
     /\ input' = [input EXCEPT ![i] = x]
     /\ funcArgs' = [funcArgs EXCEPT ![i] = body.args]
     /\ ret' = [ret EXCEPT ![i] = call.ret]
     /\ promise' = [promise EXCEPT ![i] = call.promise]
     /\ settles' = [settles EXCEPT
                      ![i] = IF call.promise.state \in {"fulfilled", "rejected"}
                               THEN 1 ELSE 0]
     /\ target' = [target EXCEPT
                     ![i] = IF body.kind = "returnHandle" THEN body.handle
                            ELSE NoOutcome]
     /\ observed' = [observed EXCEPT ![i] = call.direct]
     /\ pc' = [pc EXCEPT ![i] = "returned"]
     /\ UNCHANGED << schema, func, verdict, obj, results >>

\* The handle func returned settles (the target's own asynchronous work).
TargetSettle(i) ==
  /\ pc[i] = "returned"
  /\ target[i].state = "pending"
  /\ target' = [target EXCEPT ![i] = Apply(func, funcArgs[i][1]).settle]
  /\ UNCHANGED << schema, func, pc, input, ret, promise, funcArgs, settles,
                  observed, verdict, obj, results >>

\* The promise of the call adopts the state of the handle the body returned.
Adopt(i) ==
  /\ pc[i] = "returned"
  /\ promise[i].state = "pending"
  /\ target[i].state \in {"fulfilled", "rejected"}
  /\ promise' = [promise EXCEPT ![i] = target[i]]
  /\ settles' = [settles EXCEPT ![i] = @ + 1]
  /\ UNCHANGED << schema, func, pc, input, ret, target, funcArgs, observed,
                  verdict, obj, results >>

\* The invoking code's continuation (await / then) receives the outcome.
Deliver(i) ==
  /\ pc[i] = "returned"
  /\ ret[i] = "promise"
  /\ promise[i].state \in {"fulfilled", "rejected"}
  /\ observed' = [observed EXCEPT ![i] = promise[i]]
  /\ pc' = [pc EXCEPT ![i] = "delivered"]
  /\ UNCHANGED << schema, func, input, ret, promise, target, funcArgs,
                  settles, verdict, obj, results >>

\* README step 2: the invoking code passes the result to isValidationError.
CheckResult(i) ==
  /\ pc[i] = "delivered"
  /\ observed[i].state = "fulfilled"
  /\ verdict' = [verdict EXCEPT ![i] = isValidationError(observed[i].val)]
  /\ pc' = [pc EXCEPT ![i] = "checked"]
  /\ UNCHANGED << schema, func, input, ret, promise, target, funcArgs,
                  settles, observed, obj, results >>

Next ==
  \E i \in Invocations :
    \/ \E x \in Inputs : Call(i, x)
    \/ TargetSettle(i)
    \/ Adopt(i)
    \/ Deliver(i)
    \/ CheckResult(i)

Spec == Init /\ [][Next]_vars

(***************************************************************************)
(* The predicate applied to arbitrary values                               *)
(***************************************************************************)
PredInit ==
  /\ schema = "nameMin4"
  /\ func = "asyncTrue"
  /\ pc = [i \in Invocations |-> "idle"]
  /\ input = [i \in Invocations |-> Undefined]
  /\ ret = [i \in Invocations |-> "none"]
  /\ promise = [i \in Invocations |-> NoOutcome]
  /\ target = [i \in Invocations |-> NoOutcome]
  /\ funcArgs = [i \in Invocations |-> << >>]
  /\ settles = [i \in Invocations |-> 0]
  /\ observed = [i \in Invocations |-> NoOutcome]
  /\ verdict = [i \in Invocations |-> NoVerdict]
  /\ obj \in Values
  /\ results = << >>

\* One application of the predicate to obj; obj itself is only read.
ApplyPredicate ==
  /\ Len(results) < MaxRepeat
  /\ results' = Append(results, isValidationError(obj))
  /\ UNCHANGED << schema, func, pc, input, ret, promise, target, funcArgs,
                  settles, observed, verdict, obj >>

PredNext == ApplyPredicate

PredSpec == PredInit /\ [][PredNext]_vars

(***************************************************************************)
(* Properties                                                              *)
(***************************************************************************)
Called(i) == pc[i] # "idle"
Handed(i) == pc[i] \in {"delivered", "checked"}
Settled(i) == promise[i].state \in {"fulfilled", "rejected"}
\* What the validator reports, synchronously, for the input of invocation i.
Report(i) == safeParse(schema, input[i])
RejectedByValidator(i) ==
  /\ Report(i).kind = "return"
  /\ Report(i).res.shape = "result"
  /\ ~Report(i).res.success
AcceptedByValidator(i) ==
  /\ Report(i).kind = "return"
  /\ Report(i).res.shape = "result"
  /\ Report(i).res.success

\* C1: for every input the schema rejects, func is never invoked, before or
\* after the call resolves, and the call resolves to a value whose
\* isValidationError is true and whose errors are the issues the validator
\* reported, in the same order.
C1_RejectedInputYieldsValidationError ==
  \A i \in Invocations :
    (Called(i) /\ RejectedByValidator(i)) =>
      /\ funcArgs[i] = << >>
      /\ target[i] = NoOutcome
      /\ promise[i].state = "fulfilled"
      /\ promise[i].val.isValidationError = Attr("bool", "true")
      /\ promise[i].val.errors = ErrorsAttr(Report(i).res.issues)
      /\ Handed(i) => observed[i] = promise[i]

\* C1 witness: a call with an input that draws two issues has resolved and
\* its outcome has reached the invoking code.
C1_Witness ==
  \E i \in Invocations :
    /\ Handed(i)
    /\ RejectedByValidator(i)
    /\ Len(Report(i).res.issues) = 2
    /\ observed[i].state = "fulfilled"
    /\ Len(observed[i].val.errors.items) = 2

\* C2: for every input the schema accepts, func is invoked exactly once,
\* with the schema's normalized output as its argument, and the call
\* resolves to exactly the value func returns or resolves to.
C2_AcceptedInputForwardsNormalized ==
  \A i \in Invocations :
    (Called(i) /\ AcceptedByValidator(i)) =>
      LET r == Apply(func, Report(i).res.data)
      IN /\ funcArgs[i] = << Report(i).res.data >>
         /\ r.kind = "value" => promise[i] = Fulfilled(r.val)
         /\ (r.kind = "promise" /\ r.settle.state = "fulfilled" /\ Settled(i))
              => promise[i] = r.settle
         /\ (r.kind = "promise" /\ ~Settled(i)) => promise[i] = Pending
         /\ (Handed(i) /\ r.kind # "throw") => observed[i] = promise[i]

\* C2 witness: an accepted input whose normalized form differs from the raw
\* input was forwarded and the target's result reached the invoking code.
C2_Witness ==
  \E i \in Invocations :
    /\ Handed(i)
    /\ AcceptedByValidator(i)
    /\ Report(i).res.data # input[i]
    /\ funcArgs[i] = << Report(i).res.data >>
    /\ func = "asyncEcho"
    /\ observed[i] = Fulfilled(Report(i).res.data)

\* C3: isValidationError returns a boolean for every value, true exactly
\* when the value is neither null nor undefined and carries an
\* isValidationError attribute strictly equal to true.
C3_PredicateReturnsBoolean ==
  \A k \in 1 .. Len(results) :
    /\ results[k].kind = "return"
    /\ results[k].val \in {True, False}
    /\ results[k].val = True <=>
         /\ obj.t \notin {"null", "undefined"}
         /\ obj.isValidationError = Attr("bool", "true")

\* C4: isValidationError never raises, whatever the value, repeated
\* applications to the same value agree, and an application leaves the
\* value and the rest of the state as they were.
C4_PredicateNeverRaises ==
  /\ [](\A k \in 1 .. Len(results) :
          /\ results[k].kind = "return"
          /\ results[k] = results[1])
  /\ [][/\ obj' = obj
        /\ SubSeq(results', 1, Len(results)) = results]_vars

\* C4 witness: the predicate has been applied twice to null or undefined.
C4_Witness ==
  /\ Len(results) >= 2
  /\ obj \in {Null, Undefined}
  /\ results[2].kind = "return"

\* C5: whenever isValidationError of a call's resolved result is truthy, the
\* validation of that call's input failed and func was not run for it.
C5_TruthyMeansValidationFailed ==
  \A i \in Invocations :
    (pc[i] = "checked" /\ verdict[i].kind = "return"
       /\ ToBoolean(verdict[i].val)) =>
      /\ RejectedByValidator(i)
      /\ funcArgs[i] = << >>

\* C6: every invocation hands the invoking code a promise and nothing else;
\* the outcome reaches the invoking code only later, through that promise,
\* on the failure path and on the success path alike, and the promise is
\* settled at most once.
C6_OutcomeOnlyThroughPromise ==
  \A i \in Invocations :
    Called(i) =>
      /\ ret[i] = "promise"
      /\ settles[i] <= 1
      /\ pc[i] = "returned" => observed[i] = NoOutcome
      /\ Handed(i) => (settles[i] = 1 /\ observed[i] = promise[i])

\* C6 witness: schema check and target both synchronous; the call has
\* returned with its promise already fulfilled, and the invoking code has
\* not received the outcome yet.
C6_Witness ==
  \E i \in Invocations :
    /\ pc[i] = "returned"
    /\ AcceptedByValidator(i)
    /\ func = "syncEcho"
    /\ promise[i].state = "fulfilled"
    /\ observed[i] = NoOutcome

\* C7: when the validator raises a fault, the call fails with that same
\* fault, no ValidationError value is produced and func is not invoked.
C7_ValidatorFaultPropagates ==
  \A i \in Invocations :
    (Called(i) /\ Report(i).kind = "throw") =>
      /\ promise[i] = Rejected(Report(i).fault)
      /\ funcArgs[i] = << >>
      /\ Handed(i) => observed[i] = Rejected(Report(i).fault)
      /\ pc[i] # "checked"

\* C7 witness: the validator raised and the fault reached the invoking code.
C7_Witness ==
  \E i \in Invocations :
    /\ Handed(i)
    /\ Report(i).kind = "throw"
    /\ observed[i] = Rejected("ValidatorFault")

\* C8: when validation succeeds and func fails, by raising or through the
\* handle it returned, the call fails with exactly that fault: never a
\* ValidationError, never a normal result.
C8_TargetFaultPropagates ==
  \A i \in Invocations :
    (Called(i) /\ AcceptedByValidator(i)) =>
      LET r == Apply(func, Report(i).res.data)
      IN /\ r.kind = "throw" => promise[i] = Rejected(r.fault)
         /\ (r.kind = "promise" /\ r.settle.state = "rejected") =>
              /\ promise[i] \in {Pending, r.settle}
              /\ target[i] \in {Pending, r.settle}
         /\ (r.kind = "throw" \/ r.settle.state = "rejected") =>
              /\ Handed(i) => observed[i] = Rejected("TargetFault")
              /\ pc[i] # "checked"

\* C8 witness: the handle func returned was rejected and the fault reached
\* the invoking code.
C8_Witness ==
  \E i \in Invocations :
    /\ Handed(i)
    /\ AcceptedByValidator(i)
    /\ func = "asyncReject"
    /\ target[i] = Rejected("TargetFault")
    /\ observed[i] = Rejected("TargetFault")

\* The outcome of one invocation run on its own with input x.
Alone(x) ==
  LET body == withValidation(schema, func, x)
  IN CASE body.kind = "throw" -> Rejected(body.fault)
       [] body.kind = "return" -> Fulfilled(body.val)
       [] OTHER -> body.settle

\* C9: concurrent invocations are independent: under every interleaving and
\* completion order each invocation's outcome is the one its own input
\* determines, func is invoked exactly once for an accepted input and never
\* for a rejected one.
C9_InvocationsIndependent ==
  \A i \in Invocations :
    Called(i) =>
      /\ Settled(i) => promise[i] = Alone(input[i])
      /\ Handed(i) => observed[i] = Alone(input[i])
      /\ AcceptedByValidator(i) => funcArgs[i] = << Report(i).res.data >>
      /\ RejectedByValidator(i) => funcArgs[i] = << >>

\* C9 witness: two invocations in flight, the first with an accepted input
\* and still waiting for its target, the second, called later with a
\* rejected input, already completed.
C9_Witness ==
  /\ pc[1] = "returned"
  /\ AcceptedByValidator(1)
  /\ promise[1] = Pending
  /\ Handed(2)
  /\ RejectedByValidator(2)
  /\ observed[2].state = "fulfilled"

\* C10: when the check delivers its result asynchronously, the
\* wrapped operation waits for it and then behaves as for a synchronous
\* check: a ValidationError with the reported issues on failure, func
\* invoked with the normalized output on success.
C10_WaitsForAsyncCheck ==
  \A i \in Invocations :
    (schema = "asyncCheck" /\ Handed(i)) =>
      LET v == Verdict(schema, input[i])
      IN /\ ~v.success =>
              /\ observed[i] = Fulfilled(ValidationError(v.issues))
              /\ funcArgs[i] = << >>
         /\ v.success => funcArgs[i] = << v.data >>

====
